---- MODULE Spec2Model ----
(***************************************************************************)
(* Model of the stone-prover orchestration layer (stone-prover/src/        *)
(* prover.rs, models.rs): run_prover / run_prover_async prepare a          *)
(* temporary working directory, invoke the external cpu_air_prover as a    *)
(* child process and read the proof it wrote.                              *)
(*                                                                         *)
(* Several invocations run side by side; the filesystem, the temporary-    *)
(* directory namespace and the external engine are the environment, whose  *)
(* failures and outputs are nondeterministic choices.                      *)
(***************************************************************************)
EXTENDS Integers, Sequences, FiniteSets, TLC

(***************************************************************************)
(* Bounds                                                                  *)
(***************************************************************************)
NumInvocations == 2          \* invocations in flight side by side
MaxInput == 2                \* distinct caller inputs

Dirs == 1..NumInvocations    \* names the temporary-directory namespace can hand out
Inputs == 1..MaxInput
Modes == {"sync", "async"}   \* run_prover / run_prover_async

NoDir == 0
NoOwner == 0

(***************************************************************************)
(* models.rs: the values exchanged with the engine                         *)
(***************************************************************************)
\* The caller's arguments of run_prover; k identifies the program proved.
PublicInput(k) == [type |-> "PublicInput", n_steps |-> k]
ProverConfig(k) == [type |-> "ProverConfig", constraint_polynomial_task_size |-> k]
ProverParameters(k) == [type |-> "ProverParameters", field |-> k]
Memory(k) == [kind |-> "bytes", body |-> <<"memory", k>>]
Trace(k) == [kind |-> "bytes", body |-> <<"trace", k>>]

PrivateInput(memory_path, trace_path, pedersen, range_check, ecdsa) ==
    [type |-> "PrivateInput", memory_path |-> memory_path, trace_path |-> trace_path,
     pedersen |-> pedersen, range_check |-> range_check, ecdsa |-> ecdsa]

\* struct Proof, as in models.rs: proof_hex and nothing else.
Proof(proof_hex) == [proof_hex |-> proof_hex]

\* Deserialize as #[serde(deny_unknown_fields)] would make it.
ProofDeserializeDenyUnknown(obj) ==
    IF DOMAIN obj = {"proof_hex"}
    THEN [ok |-> TRUE, value |-> Proof(obj.proof_hex)]
    ELSE [ok |-> FALSE, error |-> [kind |-> "schema"]]

\* Deserialize as #[serde(default)] on proof_hex would make it.
ProofDeserializeDefault(obj) ==
    IF "proof_hex" \in DOMAIN obj
    THEN [ok |-> TRUE, value |-> Proof(obj.proof_hex)]
    ELSE [ok |-> TRUE, value |-> Proof("")]

\* #[derive(Deserialize)] struct Proof { proof_hex }: the field is required,
\* every other field of the JSON object is skipped.
ProofDeserialize(obj) ==
    IF "proof_hex" \in DOMAIN obj
    THEN [ok |-> TRUE, value |-> Proof(obj.proof_hex)]
    ELSE [ok |-> FALSE, error |-> [kind |-> "schema"]]

(***************************************************************************)
(* models.rs through serde_json: JSON values and the derived               *)
(* Serialize / Deserialize of Layout and PublicInput                       *)
(***************************************************************************)
JsonNull == [json |-> "null"]
JsonString(s) == [json |-> "string", str |-> s]
JsonNumber(n) == [json |-> "number", num |-> n]
\* A JSON object as the set of its <<name, value>> members.
JsonObject(members) == [json |-> "object", members |-> members]

NoDocument == [json |-> "none"]
NotDecoded == [kind |-> "none"]
DeOk(v) == [ok |-> TRUE, value |-> v]
DeErr(k) == [ok |-> FALSE, error |-> [kind |-> k]]

\* Option<T>
None == [some |-> FALSE]
Some(v) == [some |-> TRUE, value |-> v]

\* enum Layout: the eight variants.
Layout ==
    {"Plain", "Small", "Dex", "Recursive", "Starknet", "RecursiveLargeOutput",
     "AllSolidity", "StarknetWithKeccak"}

\* Deserialize for Layout with the tags matched without regard to case.
LayoutDeserializeAnyCase(v) ==
    IF v.json # "string" THEN DeErr("invalid type")
    ELSE CASE v.str \in {"plain", "Plain"} -> DeOk("Plain")
           [] v.str \in {"small", "SMALL"} -> DeOk("Small")
           [] v.str = "dex" -> DeOk("Dex")
           [] v.str = "recursive" -> DeOk("Recursive")
           [] v.str = "starknet" -> DeOk("Starknet")
           [] v.str = "recursive_large_output" -> DeOk("RecursiveLargeOutput")
           [] v.str = "all_solidity" -> DeOk("AllSolidity")
           [] v.str = "starknet_with_keccak" -> DeOk("StarknetWithKeccak")
           [] OTHER -> DeErr("unknown variant")

\* #[derive(Deserialize)] enum Layout: a unit variant is read from a JSON
\* string equal to the variant's #[serde(rename = ...)] tag.
LayoutDeserialize(v) ==
    IF v.json # "string" THEN DeErr("invalid type")
    ELSE CASE v.str = "plain" -> DeOk("Plain")
           [] v.str = "small" -> DeOk("Small")
           [] v.str = "dex" -> DeOk("Dex")
           [] v.str = "recursive" -> DeOk("Recursive")
           [] v.str = "starknet" -> DeOk("Starknet")
           [] v.str = "recursive_large_output" -> DeOk("RecursiveLargeOutput")
           [] v.str = "all_solidity" -> DeOk("AllSolidity")
           [] v.str = "starknet_with_keccak" -> DeOk("StarknetWithKeccak")
           [] OTHER -> DeErr("unknown variant")

\* #[derive(Serialize)] enum Layout: a unit variant is written as its tag.
LayoutSerialize(variant) ==
    JsonString(CASE variant = "Plain" -> "plain"
                 [] variant = "Small" -> "small"
                 [] variant = "Dex" -> "dex"
                 [] variant = "Recursive" -> "recursive"
                 [] variant = "Starknet" -> "starknet"
                 [] variant = "RecursiveLargeOutput" -> "recursive_large_output"
                 [] variant = "AllSolidity" -> "all_solidity"
                 [] variant = "StarknetWithKeccak" -> "starknet_with_keccak")

\* u32 from a JSON number: a negative number is out of range.
U32Deserialize(v) ==
    IF v.json # "number" THEN DeErr("invalid type")
    ELSE IF v.num < 0 THEN DeErr("invalid value")
    ELSE DeOk(v.num)

\* HashMap<String, u32> from a JSON object: every member's value is a u32.
\* The map is the set of its <<name, integer>> entries.
HashMapDeserialize(v) ==
    IF v.json # "object" THEN DeErr("invalid type")
    ELSE IF \E m \in v.members : ~U32Deserialize(m[2]).ok
    THEN (LET m == CHOOSE m \in v.members : ~U32Deserialize(m[2]).ok
          IN  U32Deserialize(m[2]))
    ELSE DeOk({<<m[1], U32Deserialize(m[2]).value>> : m \in v.members})

\* The field dynamic_params declared as a plain HashMap<String, u32>.
DynamicParamsDeserializeRequired(obj) ==
    IF "dynamic_params" \notin DOMAIN obj THEN DeErr("missing field")
    ELSE LET r == HashMapDeserialize(obj.dynamic_params)
         IN  IF r.ok THEN DeOk(Some(r.value)) ELSE r

\* dynamic_params: Option<HashMap<String, u32>> in a derived Deserialize:
\* None for a missing field and for null, else Some of the decoded map.
DynamicParamsDeserialize(obj) ==
    IF "dynamic_params" \notin DOMAIN obj THEN DeOk(None)
    ELSE IF obj.dynamic_params = JsonNull THEN DeOk(None)
    ELSE LET r == HashMapDeserialize(obj.dynamic_params)
         IN  IF r.ok THEN DeOk(Some(r.value)) ELSE r

\* struct PublicInput as decoded; rc_min, rc_max, memory_segments and
\* public_memory are taken as present and well-formed and are left out.
PublicInputValue(layout, n_steps, dynamic_params) ==
    [type |-> "PublicInput", layout |-> layout, n_steps |-> n_steps,
     dynamic_params |-> dynamic_params]

\* #[derive(Deserialize)] struct PublicInput from a JSON object.
PublicInputDeserialize(obj) ==
    IF "layout" \notin DOMAIN obj \/ "n_steps" \notin DOMAIN obj THEN DeErr("missing field")
    ELSE LET layout == LayoutDeserialize(obj.layout)
             n_steps == U32Deserialize(obj.n_steps)
             dynamic_params == DynamicParamsDeserialize(obj)
         IN  IF ~layout.ok THEN layout
             ELSE IF ~n_steps.ok THEN n_steps
             ELSE IF ~dynamic_params.ok THEN dynamic_params
             ELSE DeOk(PublicInputValue(layout.value, n_steps.value, dynamic_params.value))

\* #[derive(Serialize)] struct PublicInput: an Option field is written as
\* null or as its content.
PublicInputSerialize(v) ==
    [layout |-> LayoutSerialize(v.layout),
     n_steps |-> JsonNumber(v.n_steps),
     dynamic_params |-> IF v.dynamic_params = None THEN JsonNull
                        ELSE JsonObject({<<e[1], JsonNumber(e[2])>> : e \in v.dynamic_params.value})]

\* The JSON values a document may carry as "layout": the eight tags, other
\* strings close to them, and values that are no string.
LayoutDocuments ==
    {JsonString(s) : s \in {"plain", "small", "dex", "recursive", "starknet",
                            "recursive_large_output", "all_solidity",
                            "starknet_with_keccak",
                            "Plain", "SMALL", "", "dynamic", "starknet_with_keccak_v2"}}
    \cup {JsonNull, JsonNumber(1)}

\* The JSON values a document may carry as "dynamic_params".
DynamicParamsDocuments ==
    {JsonNull, JsonString("a"), JsonNumber(1),
     JsonObject({}),
     JsonObject({<<"a", JsonNumber(1)>>}),
     JsonObject({<<"a", JsonNumber(1)>>, <<"b", JsonNumber(0)>>}),
     JsonObject({<<"a", JsonNumber(-1)>>}),
     JsonObject({<<"a", JsonNumber(1)>>, <<"b", JsonString("x")>>})}

\* The JSON objects handed to the deserializer of PublicInput.
Documents ==
    {[layout |-> l, n_steps |-> JsonNumber(512)] : l \in LayoutDocuments}
    \cup {[layout |-> l, n_steps |-> JsonNumber(512), dynamic_params |-> d] :
            l \in LayoutDocuments, d \in DynamicParamsDocuments}
    \cup {[n_steps |-> JsonNumber(512)], [layout |-> JsonString("small")]}

(***************************************************************************)
(* The filesystem: fs[d] is the directory named d; owner = NoOwner when no *)
(* such directory exists, else the invocation whose tempdir() created it.  *)
(***************************************************************************)
FileNames == {"public_input.json", "private_input.json", "memory.bin",
              "prover_config_file.json", "parameters.json", "trace.bin", "proof.json"}
InputFileNames == FileNames \ {"proof.json"}

NoFile == [kind |-> "none"]
NoDirectory == [owner |-> NoOwner, files |-> [f \in FileNames |-> NoFile]]

Path(d, name) == [dir |-> d, file |-> name]

DirExists(f, d) == d \in Dirs /\ f[d].owner # NoOwner
FileExists(f, p) == DirExists(f, p.dir) /\ f[p.dir].files[p.file] # NoFile
FsRead(f, p) == IF DirExists(f, p.dir) THEN f[p.dir].files[p.file] ELSE NoFile
FsCreateDir(f, d, i) == [f EXCEPT ![d] = [owner |-> i, files |-> [n \in FileNames |-> NoFile]]]
\* A write into a directory that does not exist changes nothing.
FsWrite(f, p, content) ==
    IF DirExists(f, p.dir) THEN [f EXCEPT ![p.dir].files[p.file] = content] ELSE f
\* TempDir::drop: the directory at the handle's path and every file in it.
FsRemoveDirAll(f, d) == IF d = NoDir THEN f ELSE [f EXCEPT ![d] = NoDirectory]

(***************************************************************************)
(* The environment's choices                                               *)
(***************************************************************************)
\* std::io::Error kinds of a failing tempdir()/write and of a failing spawn.
PrepareIoErrors == {[kind |-> "PermissionDenied"], [kind |-> "StorageFull"]}
SpawnIoErrors == {[kind |-> "PermissionDenied"], [kind |-> "NotFound"]}

\* std::process::Output of a terminated child.
ExitStatuses == {0, 1}
Outputs == [status : ExitStatuses, stdout : {"out"}, stderr : {"", "bad input"}]
Success(status) == status = 0

\* What the engine may leave at the path it was given as --out-file.
EngineProofFiles ==
    { NoFile,
      [kind |-> "text", body |-> "{ not json"],
      [kind |-> "json", body |-> [annotations |-> "a"]],
      [kind |-> "json", body |-> [proof_hex |-> "0xaa"]],
      [kind |-> "json", body |-> [proof_hex |-> "0xbb", annotations |-> "a", version |-> "v"]] }

(***************************************************************************)
(* error.rs: ProverError and the conversions the `?` operator applies      *)
(***************************************************************************)
\* From<std::io::Error> for ProverError.
FromIoError(e) == [class |-> "IoError", source |-> e]
\* The error of read_json_from_file taken for a std::io::Error.
FromDecodeErrorAsIo(e) == [class |-> "IoError", source |-> e]

\* From<the error of read_json_from_file> for ProverError.
FromDecodeError(e) == [class |-> "DecodeError", source |-> e]
\* ProverError::CommandError(output)
CommandError(output) == [class |-> "CommandError", output |-> output]

OkProof(proof) == [class |-> "Ok", proof |-> proof]
NoResult == [class |-> "none"]

(***************************************************************************)
(* toolkit.rs                                                              *)
(***************************************************************************)
\* write_json_to_file(obj, path): the file holds the JSON text of obj.
ToJson(obj) == [kind |-> "json", body |-> obj]

\* read_json_from_file::<Proof>(path): a decode error when the file is
\* missing, is not JSON, or does not match the schema.
read_json_from_file(f, p) ==
    LET c == FsRead(f, p)
    IN  IF c.kind = "none" THEN [ok |-> FALSE, error |-> [kind |-> "missing"]]
        ELSE IF c.kind # "json" THEN [ok |-> FALSE, error |-> [kind |-> "syntax"]]
        ELSE ProofDeserialize(c.body)

(***************************************************************************)
(* prover.rs: the working directory                                        *)
(***************************************************************************)
\* The working set with the proof file at a fixed place outside the
\* invocation's own temporary directory.
ProverWorkingDirectorySharedProof(d) ==
    [dir |-> d,
     public_input_file |-> Path(d, "public_input.json"),
     private_input_file |-> Path(d, "private_input.json"),
     memory_file |-> Path(d, "memory.bin"),
     trace_file |-> Path(d, "trace.bin"),
     prover_config_file |-> Path(d, "prover_config_file.json"),
     prover_parameter_file |-> Path(d, "parameters.json"),
     proof_file |-> Path(1, "proof.json")]

\* struct ProverWorkingDirectory, as prepare_prover_files fills it for the
\* temporary directory d.
ProverWorkingDirectory(d) ==
    [dir |-> d,
     public_input_file |-> Path(d, "public_input.json"),
     private_input_file |-> Path(d, "private_input.json"),
     memory_file |-> Path(d, "memory.bin"),
     trace_file |-> Path(d, "trace.bin"),
     prover_config_file |-> Path(d, "prover_config_file.json"),
     prover_parameter_file |-> Path(d, "parameters.json"),
     proof_file |-> Path(d, "proof.json")]

(***************************************************************************)
(* prover.rs: the command line                                             *)
(***************************************************************************)
Command(program, args) == [program |-> program, args |-> args]

\* The value the command binds to a flag.
ArgValue(cmd, flag) ==
    LET k == CHOOSE k \in 1..Len(cmd.args) : cmd.args[k][1] = flag
    IN  cmd.args[k][2]

run_prover_from_command_line(public_input_file, private_input_file, prover_config_file, prover_parameter_file, output_file) ==
    Command("cpu_air_prover",
            << <<"--out-file", output_file>>,
               <<"--public-input-file", public_input_file>>,
               <<"--private-input-file", private_input_file>>,
               <<"--prover-config-file", prover_config_file>>,
               <<"--parameter-file", prover_parameter_file>> >>)

\* The async wrapper with the config and parameter paths under each other's flag.
run_prover_from_command_line_async_swapped(public_input_file, private_input_file, prover_config_file, parameter_file, output_file) ==
    Command("cpu_air_prover",
            << <<"--out-file", output_file>>,
               <<"--public-input-file", public_input_file>>,
               <<"--private-input-file", private_input_file>>,
               <<"--prover-config-file", parameter_file>>,
               <<"--parameter-file", prover_config_file>> >>)

run_prover_from_command_line_async(public_input_file, private_input_file, prover_config_file, parameter_file, output_file) ==
    Command("cpu_air_prover",
            << <<"--out-file", output_file>>,
               <<"--public-input-file", public_input_file>>,
               <<"--private-input-file", private_input_file>>,
               <<"--prover-config-file", prover_config_file>>,
               <<"--parameter-file", parameter_file>> >>)

\* The status check with an error built from the status alone.
CommandStatusDropsStreams(output) ==
    IF ~Success(output.status)
    THEN [ok |-> FALSE, error |-> CommandError([output EXCEPT !.stdout = "", !.stderr = ""])]
    ELSE [ok |-> TRUE]

\* The status check that also takes text on stderr for a failure.
CommandStatusReadsStderr(output) ==
    IF ~Success(output.status) \/ output.stderr # ""
    THEN [ok |-> FALSE, error |-> CommandError(output)]
    ELSE [ok |-> TRUE]

\* `if !output.status.success() { return Err(CommandError(output)) } Ok(())`
CommandStatus(output) ==
    IF ~Success(output.status)
    THEN [ok |-> FALSE, error |-> CommandError(output)]
    ELSE [ok |-> TRUE]

CommandStatusAsync(output) ==
    IF ~Success(output.status)
    THEN [ok |-> FALSE, error |-> CommandError(output)]
    ELSE [ok |-> TRUE]

\* The hand-off with the public and private input paths in each other's place.
RunProverCommandSwapped(wd) ==
    run_prover_from_command_line(wd.private_input_file, wd.public_input_file,
                                 wd.prover_config_file, wd.prover_parameter_file,
                                 wd.proof_file)

\* The positional hand-off of run_prover / run_prover_async into the wrappers.
RunProverCommand(wd) ==
    run_prover_from_command_line(wd.public_input_file, wd.private_input_file,
                                 wd.prover_config_file, wd.prover_parameter_file,
                                 wd.proof_file)

RunProverAsyncCommand(wd) ==
    run_prover_from_command_line_async(wd.public_input_file, wd.private_input_file,
                                       wd.prover_config_file, wd.prover_parameter_file,
                                       wd.proof_file)

(***************************************************************************)
(* State                                                                   *)
(***************************************************************************)
VARIABLES
    pc,          \* pc[i]: the position of invocation i in run_prover(_async)
    mode,        \* mode[i]: "sync" = run_prover, "async" = run_prover_async
    input,       \* input[i]: the caller's arguments
    tmp_dir,     \* tmp_dir[i]: the TempDir handle invocation i holds, or NoDir
    fs,          \* the filesystem's temporary-directory namespace
    child,       \* child[i]: the cpu_air_prover process of invocation i
    result,      \* result[i]: what the call returned, NoResult before it returns
    cause,       \* cause[i]: the step whose failure the call returned (history)
    env,         \* env[i]: what the environment did to invocation i (history)
    spawnCalls,  \* spawnCalls[i]: how often invocation i called Command::output (history)
    proofReads,  \* proofReads[i]: how often invocation i read the proof file (history)
    doc,         \* the JSON document handed to serde_json for a PublicInput
    de,          \* what deserializing doc returned, NotDecoded before
    ser          \* the JSON document serializing the decoded value gave

vars == <<pc, mode, input, tmp_dir, fs, child, result, cause, env, spawnCalls, proofReads, doc, de, ser>>

Procs == DOMAIN mode

NoChild == [state |-> "none"]

\* env[i]: the error the filesystem or the spawn raised, the Output of the
\* terminated child and the file the child left at its --out-file path.
Fault(e, stage) == [error |-> e, at |-> stage]
NoFault == [error |-> [kind |-> "none"], at |-> "none"]
NoOutput == [kind |-> "none"]
NoEnv == [fault |-> NoFault, output |-> NoOutput, proof |-> NoFile]

Start(m, in, document) ==
    /\ doc = document
    /\ de = NotDecoded
    /\ ser = NoDocument
    /\ mode = m
    /\ input = in
    /\ pc = [i \in Procs |-> "tempdir"]
    /\ tmp_dir = [i \in Procs |-> NoDir]
    /\ fs = [d \in Dirs |-> NoDirectory]
    /\ child = [i \in Procs |-> NoChild]
    /\ result = [i \in Procs |-> NoResult]
    /\ cause = [i \in Procs |-> "none"]
    /\ env = [i \in Procs |-> NoEnv]
    /\ spawnCalls = [i \in Procs |-> 0]
    /\ proofReads = [i \in Procs |-> 0]

\* A run_prover call beside a run_prover_async call, each on any input.
Pair == <<"sync", "async">>
Init == \E in \in [DOMAIN Pair -> Inputs] : Start(Pair, in, NoDocument)

\* NumInvocations calls in flight, of alternating mode, on different inputs.
InitConc ==
    Start([i \in 1..NumInvocations |-> IF i % 2 = 1 THEN "sync" ELSE "async"],
          [i \in 1..NumInvocations |-> ((i - 1) % MaxInput) + 1], NoDocument)

\* Return with the temporary directory persisted instead of dropped.
ReturnKeepsDir(i, res, c) ==
    /\ result' = [result EXCEPT ![i] = res]
    /\ cause' = [cause EXCEPT ![i] = c]
    /\ pc' = [pc EXCEPT ![i] = "done"]
    /\ fs' = fs
    /\ tmp_dir' = [tmp_dir EXCEPT ![i] = NoDir]
    /\ child' = [child EXCEPT ![i] = NoChild]

\* The call returns res: the working directory handle goes out of scope first.
Return(i, res, c) ==
    /\ result' = [result EXCEPT ![i] = res]
    /\ cause' = [cause EXCEPT ![i] = c]
    /\ pc' = [pc EXCEPT ![i] = "done"]
    /\ fs' = FsRemoveDirAll(fs, tmp_dir[i])
    /\ tmp_dir' = [tmp_dir EXCEPT ![i] = NoDir]
    /\ child' = [child EXCEPT ![i] = NoChild]

(***************************************************************************)
(* prepare_prover_files                                                    *)
(***************************************************************************)
\* A tempdir() that may hand out a name in use.
AnyDirNames(f) == Dirs

\* The names tempfile::tempdir() may create: a name no directory has.
TempDirNames(f) == {d \in Dirs : ~DirExists(f, d)}

TempDir(i) ==
    /\ pc[i] = "tempdir"
    /\ \/ \E d \in TempDirNames(fs) :
            /\ fs' = FsCreateDir(fs, d, i)
            /\ tmp_dir' = [tmp_dir EXCEPT ![i] = d]
            /\ pc' = [pc EXCEPT ![i] = "write_public_input"]
            /\ UNCHANGED <<child, result, cause, env>>
       \/ \E e \in PrepareIoErrors :
            /\ Return(i, FromIoError(e), "prepare")
            /\ env' = [env EXCEPT ![i].fault = Fault(e, "prepare")]
    /\ UNCHANGED <<mode, input, doc, de, ser, spawnCalls, proofReads>>

\* One write step: the file holds content and prepare goes on, or the write
\* fails and the error propagates out of run_prover.
WriteFile(i, at, name, content, next) ==
    /\ pc[i] = at
    /\ \/ /\ fs' = FsWrite(fs, Path(tmp_dir[i], name), content)
          /\ pc' = [pc EXCEPT ![i] = next]
          /\ UNCHANGED <<tmp_dir, child, result, cause, env>>
       \/ \E e \in PrepareIoErrors :
            /\ Return(i, FromIoError(e), "prepare")
            /\ env' = [env EXCEPT ![i].fault = Fault(e, "prepare")]
    /\ UNCHANGED <<mode, input, doc, de, ser, spawnCalls, proofReads>>

WritePublicInput(i) ==
    WriteFile(i, "write_public_input", "public_input.json",
              ToJson(PublicInput(input[i])), "write_prover_config")

WriteProverConfig(i) ==
    WriteFile(i, "write_prover_config", "prover_config_file.json",
              ToJson(ProverConfig(input[i])), "write_parameters")

\* The parameters written together with the private input, before memory.bin
\* and trace.bin.
WriteParametersThenPrivateInput(i) ==
    /\ pc[i] = "write_parameters"
    /\ fs' = FsWrite(FsWrite(fs, Path(tmp_dir[i], "parameters.json"),
                             ToJson(ProverParameters(input[i]))),
                     Path(tmp_dir[i], "private_input.json"),
                     ToJson(PrivateInput(Path(tmp_dir[i], "memory.bin"),
                                         Path(tmp_dir[i], "trace.bin"), <<>>, <<>>, <<>>)))
    /\ pc' = [pc EXCEPT ![i] = "write_memory"]
    /\ UNCHANGED <<mode, input, doc, de, ser, tmp_dir, child, result, cause, env, spawnCalls, proofReads>>

WriteParameters(i) ==
    WriteFile(i, "write_parameters", "parameters.json",
              ToJson(ProverParameters(input[i])), "write_memory")

WriteMemory(i) ==
    WriteFile(i, "write_memory", "memory.bin", Memory(input[i]), "write_trace")

WriteTrace(i) ==
    WriteFile(i, "write_trace", "trace.bin", Trace(input[i]), "write_private_input")

\* prepare_prover_files returning the paths alone: the TempDir handle is
\* dropped when prepare returns.
WritePrivateInputDropsDir(i) ==
    /\ pc[i] = "write_private_input"
    /\ fs' = FsRemoveDirAll(fs, tmp_dir[i])
    /\ pc' = [pc EXCEPT ![i] = "invoke"]
    /\ UNCHANGED <<mode, input, doc, de, ser, tmp_dir, child, result, cause, env, spawnCalls, proofReads>>

\* prepare_prover_files without the write of the private input.
SkipPrivateInput(i) ==
    /\ pc[i] = "write_private_input"
    /\ pc' = [pc EXCEPT ![i] = "invoke"]
    /\ UNCHANGED <<mode, input, doc, de, ser, tmp_dir, fs, child, result, cause, env, spawnCalls, proofReads>>

WritePrivateInput(i) ==
    WriteFile(i, "write_private_input", "private_input.json",
              ToJson(PrivateInput(Path(tmp_dir[i], "memory.bin"),
                                  Path(tmp_dir[i], "trace.bin"), <<>>, <<>>, <<>>)),
              "invoke")

prepare_prover_files(i) ==
    \/ TempDir(i)
    \/ WritePublicInput(i)
    \/ WriteProverConfig(i)
    \/ WriteParameters(i)
    \/ WriteMemory(i)
    \/ WriteTrace(i)
    \/ WritePrivateInput(i)

(***************************************************************************)
(* run_prover_from_command_line(_async): Command::output() spawns the      *)
(* child, waits for it and captures its status and streams.                *)
(***************************************************************************)
\* A spawn whose failure is reported as a command failure without output.
SpawnFailureAsCommandError(i, cmd) ==
    /\ spawnCalls' = [spawnCalls EXCEPT ![i] = @ + 1]
    /\ \/ /\ child' = [child EXCEPT ![i] = [state |-> "running", command |-> cmd]]
          /\ pc' = [pc EXCEPT ![i] = "wait"]
          /\ UNCHANGED <<tmp_dir, fs, result, cause, env>>
       \/ \E e \in SpawnIoErrors :
            /\ Return(i, [class |-> "CommandError", source |-> e], "spawn")
            /\ env' = [env EXCEPT ![i].fault = Fault(e, "spawn")]
    /\ UNCHANGED <<mode, input, doc, de, ser, proofReads>>

\* The spawn half of output(): the child runs cmd, or the spawn fails and the
\* std::io::Error propagates out of the wrapper and of run_prover.
Spawn(i, cmd) ==
    /\ spawnCalls' = [spawnCalls EXCEPT ![i] = @ + 1]
    /\ \/ /\ child' = [child EXCEPT ![i] = [state |-> "running", command |-> cmd]]
          /\ pc' = [pc EXCEPT ![i] = "wait"]
          /\ UNCHANGED <<tmp_dir, fs, result, cause, env>>
       \/ \E e \in SpawnIoErrors :
            /\ Return(i, FromIoError(e), "spawn")
            /\ env' = [env EXCEPT ![i].fault = Fault(e, "spawn")]
    /\ UNCHANGED <<mode, input, doc, de, ser, proofReads>>

\* A wait that runs the engine a second time when it failed.
WaitRetriesOnce(i, status) ==
    /\ IF status.ok
       THEN /\ pc' = [pc EXCEPT ![i] = "read"]
            /\ child' = [child EXCEPT ![i] = NoChild]
            /\ UNCHANGED <<tmp_dir, fs, result, cause>>
       ELSE IF spawnCalls[i] < 2
       THEN /\ pc' = [pc EXCEPT ![i] = "invoke"]
            /\ child' = [child EXCEPT ![i] = NoChild]
            /\ UNCHANGED <<tmp_dir, fs, result, cause>>
       ELSE Return(i, status.error, "command")
    /\ UNCHANGED <<mode, input, doc, de, ser, env, spawnCalls, proofReads>>

\* The wait half of output(): it returns once the child has terminated.
Wait(i, status) ==
    /\ IF status.ok
       THEN /\ pc' = [pc EXCEPT ![i] = "read"]
            /\ child' = [child EXCEPT ![i] = NoChild]
            /\ UNCHANGED <<tmp_dir, fs, result, cause>>
       ELSE Return(i, status.error, "command")
    /\ UNCHANGED <<mode, input, doc, de, ser, env, spawnCalls, proofReads>>

SpawnSync(i) ==
    /\ pc[i] = "invoke"
    /\ mode[i] = "sync"
    /\ Spawn(i, RunProverCommand(ProverWorkingDirectory(tmp_dir[i])))

SpawnAsync(i) ==
    /\ pc[i] = "invoke"
    /\ mode[i] = "async"
    /\ Spawn(i, RunProverAsyncCommand(ProverWorkingDirectory(tmp_dir[i])))

\* A wait that gives up on a child still running.
WaitSyncTimesOut(i) ==
    /\ pc[i] = "wait"
    /\ mode[i] = "sync"
    /\ IF child[i].state = "exited"
       THEN Wait(i, CommandStatus(child[i].output))
       ELSE /\ Return(i, FromIoError([kind |-> "TimedOut"]), "command")
            /\ UNCHANGED <<mode, input, doc, de, ser, env, spawnCalls, proofReads>>

WaitSync(i) ==
    /\ pc[i] = "wait"
    /\ mode[i] = "sync"
    /\ child[i].state = "exited"
    /\ Wait(i, CommandStatus(child[i].output))

WaitAsync(i) ==
    /\ pc[i] = "wait"
    /\ mode[i] = "async"
    /\ child[i].state = "exited"
    /\ Wait(i, CommandStatusAsync(child[i].output))

(***************************************************************************)
(* The external engine: it terminates with some status and streams, having *)
(* written (or not) a file at the path bound to --out-file.                *)
(***************************************************************************)
ChildExit(i) ==
    /\ child[i].state = "running"
    /\ \E out \in Outputs, proof \in EngineProofFiles :
          /\ child' = [child EXCEPT ![i] =
                          [state |-> "exited", command |-> @.command, output |-> out]]
          /\ fs' = IF proof = NoFile THEN fs
                   ELSE FsWrite(fs, ArgValue(child[i].command, "--out-file"), proof)
          /\ env' = [env EXCEPT ![i].output = out, ![i].proof = proof]
    /\ UNCHANGED <<pc, mode, input, doc, de, ser, tmp_dir, result, cause, spawnCalls, proofReads>>

(***************************************************************************)
(* run_prover / run_prover_async: load the proof and return                *)
(***************************************************************************)
\* `let proof = read_json_from_file(&prover_working_dir.proof_file)?; Ok(proof)`
ReadProof(i) ==
    /\ pc[i] = "read"
    /\ proofReads' = [proofReads EXCEPT ![i] = @ + 1]
    /\ LET r == read_json_from_file(fs, ProverWorkingDirectory(tmp_dir[i]).proof_file)
       IN  IF r.ok
           THEN Return(i, OkProof(r.value), "none")
           ELSE Return(i, FromDecodeError(r.error), "decode")
    /\ UNCHANGED <<mode, input, doc, de, ser, env, spawnCalls>>

ReadProofSync(i) == mode[i] = "sync" /\ ReadProof(i)

ReadProofAsync(i) == mode[i] = "async" /\ ReadProof(i)

\* The steps of run_prover after prepare_prover_files.
run_prover(i) ==
    \/ SpawnSync(i)
    \/ WaitSync(i)
    \/ ReadProofSync(i)

\* The steps of run_prover_async after prepare_prover_files.
run_prover_async(i) ==
    \/ SpawnAsync(i)
    \/ WaitAsync(i)
    \/ ReadProofAsync(i)

Next ==
    \E i \in Procs :
        \/ prepare_prover_files(i)
        \/ run_prover(i)
        \/ run_prover_async(i)
        \/ ChildExit(i)

Spec == Init /\ [][Next]_vars

SpecConc == InitConc /\ [][Next]_vars

\* The steps of invocation i itself; the child's termination is not one.
Step(i) == prepare_prover_files(i) \/ run_prover(i) \/ run_prover_async(i)

\* The calling thread (run_prover) and the polled future (run_prover_async)
\* keep running: a step of the call that stays possible is taken.  Nothing
\* makes the engine terminate.
FairSpec == Spec /\ \A i \in DOMAIN Pair : WF_vars(Step(i))

(***************************************************************************)
(* serde_json::from_str::<PublicInput> and serde_json::to_string on one    *)
(* document, no prover call in flight                                      *)
(***************************************************************************)
InitSerde == \E document \in Documents : Start(<<>>, <<>>, document)

Deserialize ==
    /\ doc # NoDocument
    /\ de = NotDecoded
    /\ de' = PublicInputDeserialize(doc)
    /\ UNCHANGED <<pc, mode, input, tmp_dir, fs, child, result, cause, env, spawnCalls, proofReads, doc, ser>>

Serialize ==
    /\ de # NotDecoded
    /\ de.ok
    /\ ser = NoDocument
    /\ ser' = PublicInputSerialize(de.value)
    /\ UNCHANGED <<pc, mode, input, tmp_dir, fs, child, result, cause, env, spawnCalls, proofReads, doc, de>>

NextSerde == Deserialize \/ Serialize

SpecSerde == InitSerde /\ [][NextSerde]_vars

(***************************************************************************)
(* Properties                                                              *)
(***************************************************************************)
Returned(i) == result[i] # NoResult
OwnedDirs(i) == {d \in Dirs : fs[d].owner = i}

\* C1: once a call has returned, whatever its outcome, no directory created
\* by that invocation exists any more, and so no file in it.
C1_WorkingDirRemoved ==
    \A i \in Procs : Returned(i) => (OwnedDirs(i) = {} /\ tmp_dir[i] = NoDir)

\* A call that returned a proof beside one that failed after its directory
\* had been filled.
C1_Witness ==
    \E i, j \in Procs :
        /\ result[i].class = "Ok"
        /\ Returned(j) /\ cause[j] \in {"spawn", "command", "decode"}

\* C2: within one invocation the six input files are all written when the
\* child is spawned, nothing rewrites them afterwards, and the child has been
\* spawned and has terminated when proof.json is read.
C2_PhaseOrder ==
    [][\A i \in Procs :
          /\ spawnCalls'[i] # spawnCalls[i] =>
                \A n \in InputFileNames : FileExists(fs, Path(tmp_dir[i], n))
          /\ (spawnCalls[i] > 0 /\ tmp_dir'[i] # NoDir) =>
                \A n \in InputFileNames :
                    FsRead(fs', Path(tmp_dir[i], n)) = FsRead(fs, Path(tmp_dir[i], n))
          /\ proofReads'[i] # proofReads[i] =>
                /\ spawnCalls[i] > 0
                /\ child[i].state # "running"
                /\ env[i].output # NoOutput]_vars

\* An invocation that went through the three phases.
C2_Witness == \E i \in Procs : proofReads[i] = 1 /\ spawnCalls[i] = 1 /\ Returned(i)

\* What an invocation shows, with its paths taken relative to its own
\* temporary directory (two invocations never have the same directory).
RelPath(p, d) == [inside |-> p.dir = d, file |-> p.file]
RelContent(c, d) ==
    IF c.kind = "json" /\ "memory_path" \in DOMAIN c.body
    THEN [c EXCEPT !.body.memory_path = RelPath(@, d), !.body.trace_path = RelPath(@, d)]
    ELSE c
RelFiles(i) ==
    [n \in FileNames |-> RelContent(FsRead(fs, Path(tmp_dir[i], n)), tmp_dir[i])]
RelChild(i) ==
    IF child[i].state = "none" THEN child[i]
    ELSE [child[i] EXCEPT !.command.args =
             [k \in DOMAIN @ |-> <<@[k][1], RelPath(@[k][2], tmp_dir[i])>>]]
Observation(i) ==
    [files |-> RelFiles(i), child |-> RelChild(i), result |-> result[i],
     spawnCalls |-> spawnCalls[i], proofReads |-> proofReads[i]]

\* C3: a run_prover call and a run_prover_async call on the same input, to
\* which the filesystem and the engine have behaved the same so far, are at
\* the same step with the same files, the same command line and the same
\* result.
C3_SyncAsyncEquivalent ==
    \A i, j \in Procs :
        (/\ mode[i] = "sync" /\ mode[j] = "async"
         /\ input[i] = input[j] /\ env[i] = env[j] /\ pc[i] = pc[j])
        => Observation(i) = Observation(j)

\* Both calls returned the same proof, the engine having behaved the same.
C3_Witness ==
    \E i, j \in Procs :
        /\ mode[i] = "sync" /\ mode[j] = "async"
        /\ input[i] = input[j] /\ env[i] = env[j]
        /\ result[i].class = "Ok" /\ result[j].class = "Ok"

\* C4: once the child has terminated and output() has returned, the call goes
\* on to read the proof exactly when the exit status is success; with any
\* other status it has returned CommandError carrying the child's status,
\* stdout and stderr, and has not read the proof file. CommandError arises in
\* no other way.
C4_ExitStatusDecides ==
    \A i \in Procs :
        /\ (env[i].output # NoOutput /\ pc[i] # "wait") =>
              IF Success(env[i].output.status)
              THEN /\ result[i].class # "CommandError"
                   /\ pc[i] = "read" \/ proofReads[i] = 1
              ELSE /\ result[i] = CommandError(env[i].output)
                   /\ proofReads[i] = 0
        /\ result[i].class = "CommandError" => env[i].output # NoOutput

\* A blocking call failed on exit status 1 with "bad input" on stderr while a
\* suspending call, whose child succeeded, went on to the proof file.
C4_Witness ==
    \E i, j \in Procs :
        /\ mode[i] = "sync" /\ result[i].class = "CommandError"
        /\ result[i].output = [status |-> 1, stdout |-> "out", stderr |-> "bad input"]
        /\ mode[j] = "async" /\ pc[j] = "read"

ChildTerminated(i) == env[i].output # NoOutput
ChildSucceeded(i) == ChildTerminated(i) /\ Success(env[i].output.status)
ChildFailed(i) == ChildTerminated(i) /\ ~Success(env[i].output.status)
PreparePcs == {"tempdir", "write_public_input", "write_prover_config", "write_parameters",
               "write_memory", "write_trace", "write_private_input"}

C6_State(i) ==
    /\ spawnCalls[i] <= 1 /\ proofReads[i] <= 1
    /\ Returned(i) <=> pc[i] = "done"
    /\ env[i].fault.at = "prepare" =>
          /\ result[i] = FromIoError(env[i].fault.error)
          /\ spawnCalls[i] = 0 /\ proofReads[i] = 0 /\ ~ChildTerminated(i)
    /\ env[i].fault.at = "spawn" =>
          /\ result[i] = FromIoError(env[i].fault.error)
          /\ spawnCalls[i] = 1 /\ proofReads[i] = 0 /\ ~ChildTerminated(i)
    /\ (ChildFailed(i) /\ pc[i] # "wait") =>
          result[i] = CommandError(env[i].output) /\ proofReads[i] = 0
    /\ pc[i] \in PreparePcs \cup {"invoke"} => spawnCalls[i] = 0
    /\ (pc[i] \in {"wait", "read"} \/ (Returned(i) /\ env[i].fault.at # "prepare")) =>
          spawnCalls[i] = 1
    /\ proofReads[i] = 1 => (env[i].fault = NoFault /\ ChildSucceeded(i) /\ Returned(i))

C6_Step(i) ==
    Returned(i) =>
        /\ result'[i] = result[i] /\ pc'[i] = pc[i]
        /\ spawnCalls'[i] = spawnCalls[i] /\ proofReads'[i] = proofReads[i]

\* C6: a failed preparation returns its I/O error without any spawn; a failed
\* spawn or a non-zero exit returns its error without any read of the proof
\* file; the engine is invoked at most once, and exactly once when the
\* preparation succeeded; the proof is read only after everything before it
\* succeeded; a call that has returned does nothing more and keeps its result.
C6_ShortCircuit ==
    /\ [](\A i \in Procs : C6_State(i))
    /\ [][\A i \in Procs : C6_Step(i)]_vars

\* One call stopped in preparation, the other after its one engine run failed.
C6_Witness ==
    \E i, j \in Procs :
        /\ Returned(i) /\ env[i].fault.at = "prepare" /\ tmp_dir[i] = NoDir
        /\ Returned(j) /\ ChildFailed(j) /\ spawnCalls[j] = 1

ValidProofFile(c) == c.kind = "json" /\ "proof_hex" \in DOMAIN c.body

\* C7: when the child exited with success and left a JSON object with a
\* proof_hex field at its --out-file path, the call returns Ok with exactly
\* that proof_hex, whatever other fields the object has.
C7_ProofHexReturned ==
    \A i \in Procs :
        (Returned(i) /\ ChildSucceeded(i) /\ ValidProofFile(env[i].proof))
        => result[i] = OkProof(Proof(env[i].proof.body.proof_hex))

\* A call returned the proof_hex of an engine output that has other fields.
C7_Witness ==
    \E i \in Procs :
        /\ Returned(i) /\ ChildSucceeded(i)
        /\ ValidProofFile(env[i].proof) /\ DOMAIN env[i].proof.body # {"proof_hex"}
        /\ result[i] = OkProof(Proof("0xbb"))

OwnContent(i, n) ==
    CASE n = "public_input.json" -> ToJson(PublicInput(input[i]))
      [] n = "prover_config_file.json" -> ToJson(ProverConfig(input[i]))
      [] n = "parameters.json" -> ToJson(ProverParameters(input[i]))
      [] n = "memory.bin" -> Memory(input[i])
      [] n = "trace.bin" -> Trace(input[i])
      [] n = "private_input.json" ->
            ToJson(PrivateInput(Path(tmp_dir[i], "memory.bin"),
                                Path(tmp_dir[i], "trace.bin"), <<>>, <<>>, <<>>))
      [] n = "proof.json" -> env[i].proof

\* The result of invocation i from what the environment did to it alone: the
\* pipeline run on a filesystem that holds nothing but its own proof file.
Alone(i) ==
    LET own == Path(1, "proof.json")
        solo == FsWrite(FsCreateDir([d \in Dirs |-> NoDirectory], own.dir, i), own,
                        env[i].proof)
        status == IF mode[i] = "sync" THEN CommandStatus(env[i].output)
                  ELSE CommandStatusAsync(env[i].output)
        proof == read_json_from_file(solo, own)
    IN  IF env[i].fault # NoFault THEN FromIoError(env[i].fault.error)
        ELSE IF ~status.ok THEN status.error
        ELSE IF proof.ok THEN OkProof(proof.value)
        ELSE FromDecodeError(proof.error)

\* C9: with several invocations in flight, each holds a directory that exists,
\* is the one it created and is held by no other invocation; its child is
\* given paths of that directory only; the files in it are its own input
\* files and its own engine's proof; and its result is the one the
\* environment's behaviour towards it alone determines.
C9_Isolation ==
    \A i \in Procs :
        /\ tmp_dir[i] # NoDir =>
              /\ fs[tmp_dir[i]].owner = i
              /\ \A j \in Procs \ {i} : tmp_dir[j] # tmp_dir[i]
              /\ \A n \in FileNames :
                    fs[tmp_dir[i]].files[n] \in {NoFile, OwnContent(i, n)}
        /\ child[i].state # "none" =>
              \A k \in DOMAIN child[i].command.args :
                  child[i].command.args[k][2].dir = tmp_dir[i]
        /\ Returned(i) => result[i] = Alone(i)

\* Two children run at the same time, each in its own directory.
C9_Witness ==
    \E i, j \in Procs :
        /\ i # j
        /\ child[i].state = "running" /\ child[j].state = "running"
        /\ tmp_dir[i] # tmp_dir[j]

FlagNames == {"--out-file", "--public-input-file", "--private-input-file",
              "--prover-config-file", "--parameter-file"}

\* C10: in both modes the child is cpu_air_prover with exactly the five
\* flags, each bound to the matching path of the invocation's working
\* directory, and the file at each input path is the one written for it.
C10_FlagsBound ==
    \A i \in Procs :
        child[i].state # "none" =>
            LET cmd == child[i].command
                d == tmp_dir[i]
            IN  /\ cmd.program = "cpu_air_prover"
                /\ Len(cmd.args) = Cardinality(FlagNames)
                /\ {cmd.args[k][1] : k \in DOMAIN cmd.args} = FlagNames
                /\ ArgValue(cmd, "--out-file") = Path(d, "proof.json")
                /\ ArgValue(cmd, "--public-input-file") = Path(d, "public_input.json")
                /\ ArgValue(cmd, "--private-input-file") = Path(d, "private_input.json")
                /\ ArgValue(cmd, "--prover-config-file") = Path(d, "prover_config_file.json")
                /\ ArgValue(cmd, "--parameter-file") = Path(d, "parameters.json")
                /\ FsRead(fs, ArgValue(cmd, "--public-input-file"))
                      = ToJson(PublicInput(input[i]))
                /\ FsRead(fs, ArgValue(cmd, "--prover-config-file"))
                      = ToJson(ProverConfig(input[i]))
                /\ FsRead(fs, ArgValue(cmd, "--parameter-file"))
                      = ToJson(ProverParameters(input[i]))
                /\ FsRead(fs, ArgValue(cmd, "--private-input-file"))
                      = OwnContent(i, "private_input.json")

\* A blocking and a suspending call both have their engine running.
C10_Witness ==
    \E i, j \in Procs :
        /\ mode[i] = "sync" /\ child[i].state = "running"
        /\ mode[j] = "async" /\ child[j].state = "running"

(***************************************************************************)
(* Properties of the schema (SpecSerde)                                    *)
(***************************************************************************)
\* The eight documented tags of Layout.
LayoutTags ==
    {"plain", "small", "dex", "recursive", "starknet", "recursive_large_output",
     "all_solidity", "starknet_with_keccak"}

Decoded == de # NotDecoded
Serialized == ser # NoDocument
HasLayout == "layout" \in DOMAIN doc
HasSteps == "n_steps" \in DOMAIN doc

\* C11: a layout string is accepted exactly when it is one of the eight
\* tags; the eight tags decode to eight different variants, each of which
\* serializes back to the tag it was decoded from; a document decodes only
\* with an accepted layout, and its re-serialization carries the same tag.
C11_LayoutTagsExact ==
    /\ \A t1, t2 \in LayoutTags :
          /\ LayoutDeserialize(JsonString(t1)).ok
          /\ LayoutDeserialize(JsonString(t1)).value \in Layout
          /\ (LayoutDeserialize(JsonString(t1)).value = LayoutDeserialize(JsonString(t2)).value) => t1 = t2
    /\ (Decoded /\ HasLayout /\ doc.layout.json = "string") =>
          LET r == LayoutDeserialize(doc.layout)
          IN  /\ r.ok <=> doc.layout.str \in LayoutTags
              /\ r.ok => LayoutSerialize(r.value) = doc.layout
              /\ de.ok => (r.ok /\ de.value.layout = r.value)
              /\ ~r.ok => ~de.ok
              /\ Serialized => ser.layout = doc.layout

\* A document tagged starknet_with_keccak was decoded and written back.
C11_Witness ==
    /\ Serialized
    /\ doc.layout = JsonString("starknet_with_keccak")
    /\ de.value.layout = "StarknetWithKeccak"
    /\ ser.layout = JsonString("starknet_with_keccak")

DynamicParamsOmitted == "dynamic_params" \notin DOMAIN doc
DynamicParamsNull == ~DynamicParamsOmitted /\ doc.dynamic_params = JsonNull
\* The fields of the document other than dynamic_params decode.
OtherFieldsDecode ==
    /\ HasLayout /\ LayoutDeserialize(doc.layout).ok
    /\ HasSteps /\ U32Deserialize(doc.n_steps).ok

\* C12 as stated: None when the field is omitted or null, and a mapping that
\* has entries in every other accepted case.
C12_PopulatedOtherwise ==
    Decoded =>
        /\ (OtherFieldsDecode /\ (DynamicParamsOmitted \/ DynamicParamsNull)) =>
              (de.ok /\ de.value.dynamic_params = None)
        /\ (de.ok /\ ~DynamicParamsOmitted /\ ~DynamicParamsNull) =>
              (de.value.dynamic_params.some /\ de.value.dynamic_params.value # {})

\* C12: dynamic_params decodes to None when the field is omitted and when it
\* is null; in every other accepted case the field is a JSON object whose
\* values are non-negative integers and the result is Some of the mapping
\* holding exactly the object's members, which has no entry for {}.
C12_DynamicParams ==
    Decoded =>
        /\ (OtherFieldsDecode /\ (DynamicParamsOmitted \/ DynamicParamsNull)) =>
              (de.ok /\ de.value.dynamic_params = None)
        /\ (de.ok /\ ~DynamicParamsOmitted /\ ~DynamicParamsNull) =>
              /\ doc.dynamic_params.json = "object"
              /\ \A m \in doc.dynamic_params.members : m[2].json = "number" /\ m[2].num >= 0
              /\ de.value.dynamic_params =
                    Some({<<m[1], m[2].num>> : m \in doc.dynamic_params.members})

\* A document whose dynamic_params is an object of two members decoded to
\* the mapping of the two.
C12_Witness ==
    /\ Decoded /\ de.ok
    /\ ~DynamicParamsOmitted
    /\ doc.dynamic_params = JsonObject({<<"a", JsonNumber(1)>>, <<"b", JsonNumber(0)>>})
    /\ de.value.dynamic_params = Some({<<"a", 1>>, <<"b", 0>>})
    /\ de.value.layout = "Small"
    /\ de.value.n_steps = 512

(***************************************************************************)
(* Properties of the invocation: resources and information flow            *)
(***************************************************************************)
\* The directory invocation i holds exists, is its own and has all six
\* input files.
WorkingSetIntact(i) ==
    /\ tmp_dir[i] # NoDir
    /\ DirExists(fs, tmp_dir[i])
    /\ fs[tmp_dir[i]].owner = i
    /\ \A n \in InputFileNames : FileExists(fs, Path(tmp_dir[i], n))

\* The engine of invocation i was never started.
NeverStarted(i) == spawnCalls[i] = 0 \/ env[i].fault.at = "spawn"

\* The step removes the directory of invocation i.
Released(i) == OwnedDirs(i) # {} /\ OwnedDirs(i)' = {}

C13_Step(i) ==
    /\ Released(i) =>
          /\ child[i].state # "running"
          /\ (ChildTerminated(i) \/ NeverStarted(i)')
          /\ ~Returned(i) /\ Returned(i)'
    /\ (~Returned(i) /\ Returned(i)') => OwnedDirs(i)' = {}
    /\ Returned(i) => (Returned(i)' /\ OwnedDirs(i)' = {})
    /\ (OwnedDirs(i) = {} /\ OwnedDirs(i)' # {}) => pc[i] = "tempdir"

\* C13: while the child of an invocation runs, in either mode, the working
\* directory and its six input files exist; the directory is removed in one
\* step only, the step in which the call returns, and that step comes after
\* the child has terminated or without a child ever started.
C13_DirOutlivesChild ==
    /\ [](\A i \in Procs : child[i].state = "running" => WorkingSetIntact(i))
    /\ [][\A i \in Procs : C13_Step(i)]_vars

\* The child of the blocking call runs in its intact directory while the
\* suspending call has returned after its child terminated.
C13_Witness ==
    \E i, j \in Procs :
        /\ mode[i] = "sync" /\ mode[j] = "async"
        /\ child[i].state = "running" /\ WorkingSetIntact(i)
        /\ Returned(j) /\ ChildTerminated(j) /\ OwnedDirs(j) = {}

\* The invoker of invocation i has returned from its wait.
InvokerDone(i) == ChildTerminated(i) /\ pc[i] # "wait"
InvokerOutcome(i) ==
    IF Returned(i) /\ result[i].class = "CommandError" THEN "CommandError" ELSE "Ok"
\* What a result shows once the captured streams are taken out of it.
WithoutStreams(res) ==
    IF res.class = "CommandError" THEN [class |-> res.class, status |-> res.output.status]
    ELSE res

\* C14: two invocations whose spawns succeeded and whose children exited
\* with the same status get the same outcome from the invoker, whatever the
\* children wrote to stdout and stderr; if the engine also left the same
\* file, the two calls return the same result up to the streams, which show
\* only inside a command failure, as the child's captured output.
C14_StreamsDoNotDecide ==
    /\ \A i, j \in Procs :
          (InvokerDone(i) /\ InvokerDone(j) /\ env[i].output.status = env[j].output.status) =>
              /\ InvokerOutcome(i) = InvokerOutcome(j)
              /\ (Returned(i) /\ Returned(j) /\ env[i].proof = env[j].proof) =>
                    WithoutStreams(result[i]) = WithoutStreams(result[j])
    /\ \A i \in Procs :
          Returned(i) =>
              IF result[i].class = "CommandError"
              THEN result[i].output = env[i].output
              ELSE DOMAIN result[i] \cap {"output", "stdout", "stderr"} = {}

\* Two children exited with status 0, one silent on stderr and one not, and
\* both calls returned the proof.
C14_Witness ==
    \E i, j \in Procs :
        /\ ChildSucceeded(i) /\ ChildSucceeded(j)
        /\ env[i].output.stderr = "" /\ env[j].output.stderr = "bad input"
        /\ Returned(i) /\ Returned(j)
        /\ result[i].class = "Ok" /\ result[j] = result[i]

\* The engine of invocation i was started and has not terminated.
ChildPending(i) == spawnCalls[i] = 1 /\ env[i].fault.at # "spawn" /\ ~ChildTerminated(i)

\* C15: an invocation has one child and one place where it waits, the wait
\* for that child; while the child has not terminated the call does not
\* return, and once the child has terminated the call returns and its
\* directory is removed.
C15_WaitsForChild ==
    /\ [](\A i \in Procs :
            /\ spawnCalls[i] <= 1
            /\ ChildPending(i) => (~Returned(i) /\ pc[i] = "wait")
            /\ (~Returned(i) /\ ~ENABLED Step(i)) => (pc[i] = "wait" /\ child[i].state = "running"))
    /\ \A i \in DOMAIN Pair :
            ChildTerminated(i) ~> (Returned(i) /\ OwnedDirs(i) = {} /\ tmp_dir[i] = NoDir)

\* Both calls wait; one child has terminated, the other has not.
C15_Witness ==
    \E i, j \in Procs :
        /\ pc[i] = "wait" /\ child[i].state = "exited" /\ ~Returned(i)
        /\ pc[j] = "wait" /\ ChildPending(j)

\* The paths of a working set.
WorkingSetPaths(wd) ==
    {wd.public_input_file, wd.private_input_file, wd.memory_file, wd.trace_file,
     wd.prover_config_file, wd.prover_parameter_file, wd.proof_file}

C16_State(i) ==
    pc[i] = "invoke" =>
        LET wd == ProverWorkingDirectory(tmp_dir[i])
        IN  /\ DirExists(fs, tmp_dir[i]) /\ fs[tmp_dir[i]].owner = i
            /\ \A n \in InputFileNames : FsRead(fs, Path(tmp_dir[i], n)) = OwnContent(i, n)
            /\ \A p \in WorkingSetPaths(wd) : p.dir = tmp_dir[i]
            /\ {p.file : p \in WorkingSetPaths(wd)} = FileNames
            /\ ~FileExists(fs, wd.proof_file)

\* The step creates proof.json in directory d.
ProofAppears(d) ==
    /\ ~FileExists(fs, Path(d, "proof.json"))
    /\ FileExists(fs, Path(d, "proof.json"))'

C16_Step(d) ==
    ProofAppears(d) =>
        \E i \in Procs :
            /\ tmp_dir[i] = d
            /\ child[i].state = "running" /\ child[i]'.state = "exited"
            /\ env[i]'.proof # NoFile
            /\ FsRead(fs, Path(d, "proof.json"))' = env[i]'.proof

\* C16: when prepare_prover_files has succeeded, the directory holds the six
\* input files with the caller's contents (and the derived private input),
\* every path of the working set lies in that directory, and proof.json does
\* not exist; proof.json appears only in a step in which the engine run on
\* that directory terminates having written it.
C16_PreparedWorkingSet ==
    /\ [](\A i \in Procs : C16_State(i))
    /\ [][\A d \in Dirs : C16_Step(d)]_vars

\* One call has just prepared its files for input 2 and has no proof.json;
\* the engine of the other has written its proof.json.
C16_Witness ==
    \E i, j \in Procs :
        /\ pc[i] = "invoke" /\ input[i] = 2
        /\ FsRead(fs, Path(tmp_dir[i], "memory.bin")) = Memory(2)
        /\ ~FileExists(fs, Path(tmp_dir[i], "proof.json"))
        /\ child[j].state = "exited"
        /\ FileExists(fs, Path(tmp_dir[j], "proof.json"))

\* C17: whenever a private input descriptor is on disk, its memory_path and
\* trace_path are the paths of memory.bin and trace.bin of the directory it
\* is in, its three sequences are empty, and both files it names exist, with
\* the bytes the caller passed.
C17_DescriptorDerived ==
    \A d \in Dirs :
        FileExists(fs, Path(d, "private_input.json")) =>
            LET desc == FsRead(fs, Path(d, "private_input.json")).body
                i == fs[d].owner
            IN  /\ desc = PrivateInput(Path(d, "memory.bin"), Path(d, "trace.bin"), <<>>, <<>>, <<>>)
                /\ desc.memory_path = ProverWorkingDirectory(d).memory_file
                /\ desc.trace_path = ProverWorkingDirectory(d).trace_file
                /\ desc.pedersen = <<>> /\ desc.range_check = <<>> /\ desc.ecdsa = <<>>
                /\ FileExists(fs, desc.memory_path) /\ FileExists(fs, desc.trace_path)
                /\ FsRead(fs, desc.memory_path) = Memory(input[i])
                /\ FsRead(fs, desc.trace_path) = Trace(input[i])

\* The descriptor of the second directory names that directory's memory.bin
\* and trace.bin, and its engine runs.
C17_Witness ==
    \E i \in Procs :
        /\ tmp_dir[i] = 2
        /\ child[i].state = "running"
        /\ FsRead(fs, Path(2, "private_input.json")).body.memory_path = Path(2, "memory.bin")
        /\ FsRead(fs, Path(2, "private_input.json")).body.trace_path = Path(2, "trace.bin")
        /\ FileExists(fs, Path(2, "memory.bin")) /\ FileExists(fs, Path(2, "trace.bin"))
====
